---- MODULE Spec2Model ----
(***************************************************************************)
(* Model of frontend/src/App.tsx: the main chat (App), the manager chat    *)
(* (ManagerChat) and the session identifier they share through             *)
(* localStorage, with the /chat backend as the environment.                *)
(*                                                                         *)
(* JavaScript strings are TLA+ strings.  null is the string Null, a key    *)
(* that a payload does not carry is the string Absent.  Decoded JSON       *)
(* values are records tagged by t: "null", "str", "num", "arr", "obj".     *)
(***************************************************************************)
EXTENDS Integers, Sequences, FiniteSets, TLC

\* ------------------------------------------------------------------ bounds

\* Number of fetch calls to /chat the model follows (main and manager chat together).
MaxRequests == 2

\* Number of fetchDecisions calls the model follows.
MaxFetches == 2

\* Number of saveDecision calls the model follows.
MaxSaves == 1

\* ------------------------------------------------------ strings and values

Null == "<null>"
Absent == "<absent>"

Truthy(s) == s # Null /\ s # Absent /\ s # ""

WhiteSpace == {" ", "\n", "\t"}

RECURSIVE TrimStart(_)
TrimStart(s) ==
  IF Len(s) = 0 THEN s
  ELSE IF SubSeq(s, 1, 1) \in WhiteSpace THEN TrimStart(SubSeq(s, 2, Len(s)))
  ELSE s

RECURSIVE TrimEnd(_)
TrimEnd(s) ==
  IF Len(s) = 0 THEN s
  ELSE IF SubSeq(s, Len(s), Len(s)) \in WhiteSpace THEN TrimEnd(SubSeq(s, 1, Len(s) - 1))
  ELSE s

\* String.prototype.trim
Trim(s) == TrimEnd(TrimStart(s))

\* String.prototype.includes
Includes(s, needle) ==
  \E i \in 1..(Len(s) - Len(needle) + 1) : SubSeq(s, i, i + Len(needle) - 1) = needle

JNull == [t |-> "null"]
JUndefined == [t |-> "undefined"]
JStr(s) == [t |-> "str", s |-> s]
JNum(n) == [t |-> "num", n |-> n]
JArr(items) == [t |-> "arr", items |-> items]
\* An object keeps its keys in insertion order: a sequence of <<key, value>> pairs.
JObj(pairs) == [t |-> "obj", kv |-> pairs]
SyntaxError == [t |-> "SyntaxError"]

IsObject(v) == v.t \in {"obj", "arr"}

\* 'k' in obj
HasKey(v, k) == v.t = "obj" /\ \E i \in 1..Len(v.kv) : v.kv[i][1] = k

\* obj[k]
Get(v, k) ==
  IF HasKey(v, k)
  THEN LET i == CHOOSE j \in 1..Len(v.kv) : v.kv[j][1] = k IN v.kv[i][2]
  ELSE JUndefined

\* a ?? b
Coalesce(a, b) == IF a.t \in {"null", "undefined"} THEN b ELSE a

\* String(v)
JSString(v) ==
  CASE v.t = "str" -> v.s
    [] v.t = "num" -> ToString(v.n)
    [] v.t = "null" -> "null"
    [] v.t = "undefined" -> "undefined"
    [] v.t = "obj" -> "[object Object]"
    [] OTHER -> ""

\* --------------------------------------------------------- response bodies

BodyDecision ==
  "{\"reply\":{\"decision\":\"REVIEW\",\"reason\":\"high utilization\"},\"session_id\":\"S9\"}"
BodyEmptyReply == "{\"reply\":\"\",\"session_id\":\"S1\"}"
BodyProfile ==
  "{\"reply\":{\"customer_id\":\"C101\",\"bank_statement\":{\"transactions\":[1,2]},\"credit_profile\":{\"credit_cards\":[1],\"loans\":[]}}}"
BodyErrorDetail == "{\"detail\":\"boom\",\"session_id\":\"S1\"}"
BodyText == "hello"
BodyHtml == "<html>"

DecisionReply == JObj(<< <<"decision", JStr("REVIEW")>>, <<"reason", JStr("high utilization")>> >>)

ProfileReply ==
  JObj(<< <<"customer_id", JStr("C101")>>,
          <<"bank_statement", JObj(<< <<"transactions", JArr(<<JNum(1), JNum(2)>>)>> >>)>>,
          <<"credit_profile", JObj(<< <<"credit_cards", JArr(<<JNum(1)>>)>>,
                                      <<"loans", JArr(<< >>)>> >>)>> >>)

\* Bodies of the decision sources.
BodyWrapped == "{\"decisions\":{\"C1\":{\"status\":\"approve\",\"explanation\":\"ok\"}}}"
BodyDirect == "{\"C101\":{\"decision\":\"review\",\"reason\":\"high utilization\",\"ts\":\"t0\"}}"
BodyNoDecisions == "{}"
BodyNumber == "5"

WrappedEntry == JObj(<< <<"status", JStr("approve")>>, <<"explanation", JStr("ok")>> >>)

DirectEntry ==
  JObj(<< <<"decision", JStr("review")>>, <<"reason", JStr("high utilization")>>,
          <<"ts", JStr("t0")>> >>)

\* JSON.parse on the texts the model exchanges; any other text of the model is
\* not JSON and makes JSON.parse throw.
JSONParse(s) ==
  CASE s = BodyDecision -> JObj(<< <<"reply", DecisionReply>>, <<"session_id", JStr("S9")>> >>)
    [] s = BodyEmptyReply -> JObj(<< <<"reply", JStr("")>>, <<"session_id", JStr("S1")>> >>)
    [] s = BodyProfile -> JObj(<< <<"reply", ProfileReply>> >>)
    [] s = BodyErrorDetail -> JObj(<< <<"detail", JStr("boom")>>, <<"session_id", JStr("S1")>> >>)
    [] s = BodyWrapped -> JObj(<< <<"decisions", JObj(<< <<"C1", WrappedEntry>> >>)>> >>)
    [] s = BodyDirect -> JObj(<< <<"C101", DirectEntry>> >>)
    [] s = BodyNoDecisions -> JObj(<< >>)
    [] s = BodyNumber -> JNum(5)
    [] OTHER -> SyntaxError

\* ------------------------------------------------------------- formatReply

NoReplyText == "No reply returned from the assistant."
TryAgainText == "No reply returned from the assistant. Please try again."

ArrayLength(v) == IF v.t = "arr" THEN Len(v.items) ELSE 0

ProfileSummary(obj) ==
  LET bank == Coalesce(Get(obj, "bank_statement"), JObj(<< >>))
      credit == Coalesce(Get(obj, "credit_profile"), JObj(<< >>))
      txCount == ArrayLength(Get(bank, "transactions"))
      cardCount == ArrayLength(Get(credit, "credit_cards"))
      loanCount == ArrayLength(Get(credit, "loans"))
  IN "Customer: " \o JSString(Coalesce(Get(obj, "customer_id"), JStr("N/A")))
       \o "\nBank statement: " \o ToString(txCount) \o " transactions"
       \o "\nCredit cards: " \o ToString(cardCount) \o " card(s)"
       \o "\nLoans: " \o ToString(loanCount) \o " loan(s)"

KeyLine(pair) ==
  LET k == pair[1]
      val == pair[2]
  IN IF val.t \in {"str", "num"} THEN k \o ": " \o JSString(val)
     ELSE IF val.t = "arr" THEN k \o ": [" \o ToString(Len(val.items)) \o " items]"
     ELSE k \o ": {...}"

RECURSIVE JoinLines(_)
JoinLines(pairs) ==
  IF Len(pairs) = 0 THEN ""
  ELSE IF Len(pairs) = 1 THEN KeyLine(pairs[1])
  ELSE KeyLine(pairs[1]) \o "\n" \o JoinLines(Tail(pairs))

KeyDump(obj) ==
  IF Len(obj.kv) = 0 THEN NoReplyText
  ELSE JoinLines(SubSeq(obj.kv, 1, IF Len(obj.kv) < 8 THEN Len(obj.kv) ELSE 8))

\* Mutant of formatReply: the profile summary is tried before the decision.
formatReplyProfileFirst(raw) ==
  IF raw.t = "str" THEN raw.s
  ELSE IF raw.t = "obj"
  THEN IF HasKey(raw, "bank_statement") \/ HasKey(raw, "credit_profile")
       THEN ProfileSummary(raw)
       ELSE IF HasKey(raw, "decision") /\ HasKey(raw, "reason")
       THEN "Decision: " \o JSString(Get(raw, "decision")) \o "\nReason: " \o JSString(Get(raw, "reason"))
       ELSE KeyDump(raw)
  ELSE TryAgainText

RECURSIVE formatReply(_)
formatReply(raw) ==
  IF raw.t = "str"
  THEN IF JSONParse(raw.s) # SyntaxError THEN formatReply(JSONParse(raw.s)) ELSE raw.s
  ELSE IF raw.t = "obj"
  THEN IF HasKey(raw, "decision") /\ HasKey(raw, "reason")
       THEN "Decision: " \o JSString(Get(raw, "decision")) \o "\nReason: " \o JSString(Get(raw, "reason"))
       ELSE IF HasKey(raw, "bank_statement") \/ HasKey(raw, "credit_profile")
       THEN ProfileSummary(raw)
       ELSE KeyDump(raw)
  ELSE IF raw.t = "arr"
  THEN NoReplyText
  ELSE TryAgainText

\* ----------------------------------------------------- the /chat backend

\* What fetch() gives back: an HTTP response, or a rejection (kind "neterr").
Http(ok, status, ctJson, body) ==
  [kind |-> "http", ok |-> ok, status |-> status, ctJson |-> ctJson, body |-> body]

RespDecision == Http(TRUE, 200, TRUE, BodyDecision)
RespEmptyReply == Http(TRUE, 200, TRUE, BodyEmptyReply)
RespProfile == Http(TRUE, 200, TRUE, BodyProfile)
RespText == Http(TRUE, 200, FALSE, BodyText)
RespBadJson == Http(TRUE, 200, TRUE, BodyHtml)
RespStatus == Http(FALSE, 500, TRUE, BodyErrorDetail)
RespNetErr == [kind |-> "neterr", ok |-> FALSE, status |-> 0, ctJson |-> FALSE, body |-> ""]
NoResp == [kind |-> "none", ok |-> FALSE, status |-> 0, ctJson |-> FALSE, body |-> ""]

Responses ==
  {RespDecision, RespEmptyReply, RespProfile, RespText, RespBadJson, RespStatus, RespNetErr}

NetworkErrorMessage == "Failed to fetch"
JsonErrorMessage == "Unexpected token < in JSON at position 0"

Thrown(msg) == [thrown |-> TRUE, message |-> msg, data |-> JUndefined]
Decoded(v) == [thrown |-> FALSE, message |-> "", data |-> v]

\* The body of a response as both controllers decode it: response.json() when the
\* content type says JSON (it throws on a body that is not), else JSON.parse of the
\* text with the raw text as the fallback.
DecodeBody(resp) ==
  IF resp.ctJson
  THEN IF JSONParse(resp.body) = SyntaxError THEN Thrown(JsonErrorMessage)
       ELSE Decoded(JSONParse(resp.body))
  ELSE IF JSONParse(resp.body) = SyntaxError THEN Decoded(JStr(resp.body))
       ELSE Decoded(JSONParse(resp.body))

\* handleSend's try block from the await on: the error it throws, or the decoded data.
MainOutcome(resp) ==
  IF resp.kind = "neterr" THEN Thrown(NetworkErrorMessage)
  ELSE IF ~resp.ok THEN Thrown("Backend responded with status " \o ToString(resp.status))
  ELSE DecodeBody(resp)

\* sendManagerQuery's try block from the await on: res.ok is never looked at.
ManagerOutcome(resp) ==
  IF resp.kind = "neterr" THEN Thrown(NetworkErrorMessage)
  ELSE DecodeBody(resp)

\* data && typeof data === 'object' && 'session_id' in data
HasSessionId(data) == IsObject(data) /\ HasKey(data, "session_id")

\* String(data.session_id)
SessionIdOf(data) == JSString(Get(data, "session_id"))

\* Mutant of ReplyPayload: the whole body is formatted.
ReplyPayloadWholeBody(data) == data

\* ('reply' in data) ? data.reply : data
ReplyPayload(data) == IF IsObject(data) /\ HasKey(data, "reply") THEN Get(data, "reply") ELSE data

\* ------------------------------------------------- decisions.json sources

\* String.prototype.toUpperCase on one character
UpperChar(c) ==
  CASE c = "a" -> "A" [] c = "b" -> "B" [] c = "c" -> "C" [] c = "d" -> "D"
    [] c = "e" -> "E" [] c = "f" -> "F" [] c = "g" -> "G" [] c = "h" -> "H"
    [] c = "i" -> "I" [] c = "j" -> "J" [] c = "k" -> "K" [] c = "l" -> "L"
    [] c = "m" -> "M" [] c = "n" -> "N" [] c = "o" -> "O" [] c = "p" -> "P"
    [] c = "q" -> "Q" [] c = "r" -> "R" [] c = "s" -> "S" [] c = "t" -> "T"
    [] c = "u" -> "U" [] c = "v" -> "V" [] c = "w" -> "W" [] c = "x" -> "X"
    [] c = "y" -> "Y" [] c = "z" -> "Z" [] OTHER -> c

\* String.prototype.toUpperCase
RECURSIVE ToUpperCase(_)
ToUpperCase(s) ==
  IF Len(s) = 0 THEN s
  ELSE UpperChar(SubSeq(s, 1, 1)) \o ToUpperCase(SubSeq(s, 2, Len(s)))

\* A field of a DecisionRecord as it is kept: the string of a JSON string, Absent
\* for undefined, Null for null.
FieldValue(v) ==
  CASE v.t = "str" -> v.s
    [] v.t = "undefined" -> Absent
    [] v.t = "null" -> Null
    [] OTHER -> JSString(v)

DecisionRecord(decision, reason, updatedAt) ==
  [decision |-> decision, reason |-> reason, updated_at |-> updatedAt]

\* Mutant of NormalizeEntry: status, explanation and ts are preferred.
NormalizeEntryStatusFirst(v) ==
  IF IsObject(v)
  THEN DecisionRecord(
         ToUpperCase(JSString(Coalesce(Coalesce(Get(v, "status"), Get(v, "decision")), JStr("")))),
         FieldValue(Coalesce(Coalesce(Get(v, "explanation"), Get(v, "reason")), JStr(""))),
         FieldValue(Coalesce(Coalesce(Coalesce(Get(v, "ts"), Get(v, "updatedAt")),
                                      Get(v, "updated_at")), JUndefined)))
  ELSE DecisionRecord(ToUpperCase(JSString(Coalesce(v, JStr("")))), "", Absent)

\* The record fetchDecisions keeps for one entry v of the mapping.
NormalizeEntry(v) ==
  IF IsObject(v)
  THEN DecisionRecord(
         ToUpperCase(JSString(Coalesce(Coalesce(Get(v, "decision"), Get(v, "status")), JStr("")))),
         FieldValue(Coalesce(Coalesce(Get(v, "reason"), Get(v, "explanation")), JStr(""))),
         FieldValue(Coalesce(Coalesce(Coalesce(Get(v, "updated_at"), Get(v, "updatedAt")),
                                      Get(v, "ts")), JUndefined)))
  ELSE DecisionRecord(ToUpperCase(JSString(Coalesce(v, JStr("")))), "", Absent)

\* Object.entries(mapping): the pairs of an object, the indexed items of an array.
Entries(mapping) ==
  IF mapping.t = "obj" THEN mapping.kv
  ELSE IF mapping.t = "arr"
  THEN [i \in 1..Len(mapping.items) |-> <<ToString(i - 1), mapping.items[i]>>]
  ELSE << >>

\* ('decisions' in payload && typeof payload.decisions === 'object') ? payload.decisions : payload
Mapping(payload) ==
  IF HasKey(payload, "decisions")
       /\ (IsObject(Get(payload, "decisions")) \/ Get(payload, "decisions").t = "null")
  THEN Get(payload, "decisions")
  ELSE payload

\* normalized: customer id -> DecisionRecord
Normalize(mapping) ==
  LET es == Entries(mapping)
      ValueOf(k) == es[CHOOSE i \in 1..Len(es) : es[i][1] = k][2]
  IN [k \in {es[i][1] : i \in 1..Len(es)} |-> NormalizeEntry(ValueOf(k))]

\* useState<Record<string, DecisionRecord>>({})
NoDecisions == [k \in {} |-> DecisionRecord("", "", Absent)]

\* What a decision source gives back to fetch(url).
SourceThrows == RespNetErr
SourceMissing == Http(FALSE, 404, FALSE, BodyHtml)
SourceHtml == Http(TRUE, 200, FALSE, BodyHtml)
SourceNumber == Http(TRUE, 200, TRUE, BodyNumber)
SourceWrapped == Http(TRUE, 200, TRUE, BodyWrapped)
SourceDirect == Http(TRUE, 200, TRUE, BodyDirect)
SourceNoDecisions == Http(TRUE, 200, TRUE, BodyNoDecisions)

SourceResponses ==
  {SourceThrows, SourceMissing, SourceHtml, SourceNumber, SourceWrapped, SourceDirect,
   SourceNoDecisions}

Skipped == [loaded |-> FALSE, normalized |-> NoDecisions]
Loaded(normalized) == [loaded |-> TRUE, normalized |-> normalized]

\* One pass of the loop body of fetchDecisions on the response of a candidate: the
\* candidate is skipped (fetch or res.json() throws, !res.ok, a payload that is not an
\* object, Object.entries throwing on a null mapping) or its mapping is normalized.
Probe(resp) ==
  IF resp.kind = "neterr" \/ ~resp.ok THEN Skipped
  ELSE IF JSONParse(resp.body) = SyntaxError THEN Skipped
  ELSE IF ~IsObject(JSONParse(resp.body)) THEN Skipped
  ELSE IF Mapping(JSONParse(resp.body)).t = "null" THEN Skipped
  ELSE Loaded(Normalize(Mapping(JSONParse(resp.body))))

\* ------------------------------------------------------------------ state

VARIABLES
  sessionId,            \* App: useState sessionId (Null or a string)
  stored,               \* localStorage[SESSION_STORAGE_KEY] (Null when the key is absent)
  messages,             \* App: the main transcript
  isSending,            \* App: the in-flight flag
  error,                \* App: the inline error text (Null or a string)
  net,                  \* the fetch calls to /chat that have not settled yet
  nreq,                 \* number of fetch calls made so far
  openManagerChatFor,   \* FloatingPopup: customer of the mounted ManagerChat, or Null
  mgrMessages,          \* ManagerChat: transcript
  mgrIsSending,         \* ManagerChat: the in-flight flag
  lastResp,             \* history: the response handleSend processed for the latest turn
  mgrLastResp,          \* history: the response sendManagerQuery processed last
  obtained,             \* history: session id of the last response the main chat
                        \*   processed that carried one; Null once the session is cleared
  busyRejected,         \* history: handleSend was called while a send was in flight
  open,                 \* FloatingPopup: the manager's area is shown
  authenticated,        \* FloatingPopup: signed in
  authError,            \* FloatingPopup: sign-in error text (Null or a string)
  decisions,            \* FloatingPopup: customer id -> DecisionRecord
  loading,              \* FloatingPopup: a fetchDecisions has started and not finished
  fetchError,           \* FloatingPopup: fetch error text (Null or a string)
  fetches,              \* the fetchDecisions calls under way, each at one candidate
  nfetch,               \* number of fetchDecisions calls made so far
  lastSource,           \* history: what the candidate probed last gave back
  mgrDecision,          \* ManagerChat: the decision field
  mgrReason,            \* ManagerChat: the reason field
  mgrUpdatedAt,         \* ManagerChat: updatedAt (Absent when undefined)
  saveStatus,           \* ManagerChat: status text of saveDecision (Null or a string)
  saves,                \* the POSTs to /update-decisions that have not settled yet
  nsave,                \* number of saveDecision calls made so far
  lastSave,             \* history: the response saveDecision processed last
  arg,                  \* the input of a function applied on its own
  result                \* its result

vars ==
  <<sessionId, stored, messages, isSending, error, net, nreq, openManagerChatFor,
    mgrMessages, mgrIsSending, lastResp, mgrLastResp, obtained, busyRejected,
    open, authenticated, authError, decisions, loading, fetchError, fetches, nfetch,
    lastSource, mgrDecision, mgrReason, mgrUpdatedAt, saveStatus, saves, nsave, lastSave,
    arg, result>>

mainVars == <<sessionId, stored, messages, isSending, error>>
mgrVars == <<openManagerChatFor, mgrMessages, mgrIsSending>>
mainHistory == <<lastResp, obtained, busyRejected>>
popupVars == <<open, authenticated, authError, decisions, loading, fetchError>>
fetchVars == <<fetches, nfetch, lastSource>>
saveVars == <<mgrDecision, mgrReason, mgrUpdatedAt, saveStatus, saves, nsave, lastSave>>
pureVars == <<arg, result>>
chatVars ==
  <<sessionId, stored, messages, isSending, error, net, nreq, mgrMessages, mgrIsSending,
    lastResp, mgrLastResp, obtained, busyRejected>>

\* The welcome text of App.messages, without its leading emoji.
WelcomeText ==
  "Hi, I'm your Banking Agent.\n\nAsk about a loan and I'll confirm the customer ID, fetch bank statements, credit cards, and loans, run the rules, and share a clear decision with reasons."
FailureText == "Sorry, something went wrong while contacting the assistant."

Msg(id, from, text) == [id |-> id, from |-> from, text |-> text]
WelcomeMessage == Msg("welcome", "ai", WelcomeText)

\* makeId(): a fresh identifier; the n-th fetch call names its user message and its reply.
UserMsgId(n) == "u" \o ToString(n)
ReplyMsgId(n) == "a" \o ToString(n)

\* A request in flight: the payload of the POST, the controller that awaits it, and
\* two marks kept for the properties: preClear (the session was cleared after the
\* request was issued) and unmounted (the ManagerChat that awaits it was closed).
Request(n, ctl, message, sid, cust, endSession) ==
  [rid |-> n, ctl |-> ctl, message |-> message, session_id |-> sid, customer_id |-> cust,
   end_session |-> endSession, preClear |-> FALSE, unmounted |-> FALSE]

MainRequests == {r \in net : r.ctl = "main"}
ManagerRequests == {r \in net : r.ctl = "mgr"}

\* Inputs typed into the composers; the quick prompt is also what the first one trims to.
QuickPrompt == "Check eligibility for customer C101"
Texts == {"   ", " " \o QuickPrompt \o " "}
ManagerTexts == {" ", "show loans "}
Customers == {"C101"}
StoredAtLoad == {Null, "S0"}

\* localStorage.getItem inside try/catch: null when the read throws.
GetItem(ok) == IF ok THEN stored ELSE Null

\* What a read of the slot can give: the stored value, or null when storage throws.
Reads == {GetItem(ok) : ok \in BOOLEAN}

\* The localStorage half of saveSessionId: setItem or removeItem inside try/catch.
StoredAfterSave(id, ok) == IF ~ok THEN stored ELSE IF Truthy(id) THEN id ELSE Null

\* Mutant of SessionAfterSave: the state is set only when the storage write went through.
SessionAfterSaveIfStored(id, ok) == IF ok THEN id ELSE sessionId

\* The setSessionId half of saveSessionId: it runs after the try/catch, whatever happened.
SessionAfterSave(id, ok) == id

\* The session was cleared: every request still in flight was issued before the clear.
MarkPreClear(reqs) == {[r EXCEPT !.preClear = TRUE] : r \in reqs}

\* useState initial values of App, with no ManagerChat mounted.
ChatConstructed ==
  /\ stored \in StoredAtLoad
  /\ sessionId \in Reads
  /\ messages = <<WelcomeMessage>>
  /\ isSending = FALSE
  /\ error = Null
  /\ net = {}
  /\ nreq = 0
  /\ openManagerChatFor = Null
  /\ mgrMessages = << >>
  /\ mgrIsSending = FALSE
  /\ lastResp = NoResp
  /\ mgrLastResp = NoResp
  /\ obtained = Null
  /\ busyRejected = FALSE
  /\ mgrDecision = ""
  /\ mgrReason = ""
  /\ mgrUpdatedAt = Absent
  /\ saveStatus = Null

\* useState initial values of FloatingPopup.
PopupConstructed ==
  /\ open = FALSE
  /\ authenticated = FALSE
  /\ authError = Null
  /\ decisions = NoDecisions
  /\ loading = FALSE
  /\ fetchError = Null

\* The decision table of BodyDirect: one row, for C101.
DirectDecisions == Normalize(Mapping(JSONParse(BodyDirect)))

\* The manager's area after sign-in, once fetchDecisions has loaded BodyDirect.
SignedIn ==
  /\ open = TRUE
  /\ authenticated = TRUE
  /\ authError = Null
  /\ decisions = DirectDecisions
  /\ loading = FALSE
  /\ fetchError = Null

NothingUnderWay ==
  /\ fetches = {}
  /\ nfetch = 0
  /\ lastSource = NoResp
  /\ saves = {}
  /\ nsave = 0
  /\ lastSave = NoResp

NoArg == [t |-> "none"]

NothingApplied == arg = NoArg /\ result = NoArg

\* The chat specifications start with the manager signed in and the table loaded, a
\* state PopupSpec reaches from PopupInit before any chat activity.
Init == ChatConstructed /\ SignedIn /\ NothingUnderWay /\ NothingApplied

\* The state after construction.
PopupInit == ChatConstructed /\ PopupConstructed /\ NothingUnderWay /\ NothingApplied

\* --------------------------------------------------------------- main chat

\* payload.session_id of handleSend: the sessionId state, attached when truthy
MainPayloadSessionId == IF Truthy(sessionId) THEN sessionId ELSE Absent

\* Mutant of SendRejected: the in-flight flag is not looked at.
SendRejectedBlankOnly(trimmed) == trimmed = ""

\* if (!trimmed || isSending) return
SendRejected(trimmed) == trimmed = "" \/ isSending

\* handleSend(text, opts) up to its await.
handleSend(text, endSession) ==
  LET trimmed == Trim(text)
      n == nreq + 1
      req == Request(n, "main", trimmed, MainPayloadSessionId, Absent, endSession)
  IN IF SendRejected(trimmed)
     THEN /\ UNCHANGED <<messages, isSending, error, net, nreq, lastResp>>
          /\ busyRejected' = (busyRejected \/ trimmed # "")
     ELSE /\ nreq < MaxRequests
          /\ error' = Null
          /\ messages' = Append(messages, Msg(UserMsgId(n), "user", trimmed))
          /\ isSending' = TRUE
          /\ net' = net \cup {req}
          /\ nreq' = n
          /\ lastResp' = NoResp
          /\ UNCHANGED busyRejected

\* The composer or a quick prompt calls handleSend(text).
HandleSend(text) ==
  /\ handleSend(text, FALSE)
  /\ UNCHANGED <<sessionId, stored, obtained, mgrLastResp>>
  /\ UNCHANGED mgrVars
  /\ UNCHANGED <<popupVars, fetchVars, saveVars, pureVars>>

\* Mutant of MessagesAfterSettle: a failure rolls the user's message back.
MessagesAfterSettleRollback(req, out) ==
  IF out.thrown
  THEN Append(SubSeq(messages, 1, Len(messages) - 1),
              Msg(ReplyMsgId(req.rid), "ai", FailureText))
  ELSE Append(messages, Msg(ReplyMsgId(req.rid), "ai", formatReply(ReplyPayload(out.data))))

\* The transcript after the try/catch of handleSend has run on a settled fetch.
MessagesAfterSettle(req, out) ==
  IF out.thrown
  THEN Append(messages, Msg(ReplyMsgId(req.rid), "ai", FailureText))
  ELSE Append(messages, Msg(ReplyMsgId(req.rid), "ai", formatReply(ReplyPayload(out.data))))

\* Mutant of SendingAfterSettle: the flag is cleared at the end of the try block only.
SendingAfterSettleOnSuccess(out) == out.thrown

\* The in-flight flag after handleSend's finally block.
SendingAfterSettle(out) == FALSE

\* Mutant of SessionAfterSettle: the session id is adopted only with a non-empty reply.
SessionAfterSettleNeedsReply(req, out) ==
  IF req.end_session THEN Null
  ELSE IF ~out.thrown /\ HasSessionId(out.data) /\ formatReply(ReplyPayload(out.data)) # ""
  THEN SessionIdOf(out.data)
  ELSE sessionId

\* The session id after a settled fetch: saveSessionId(sid) when the decoded body
\* carries one, then saveSessionId(null) when endAndArchiveSession awaited the call.
SessionAfterSettle(req, out) ==
  IF req.end_session THEN Null
  ELSE IF ~out.thrown /\ HasSessionId(out.data) THEN SessionIdOf(out.data)
  ELSE sessionId

\* localStorage after a settled fetch: saveSessionId(sid) when the decoded body
\* carries a session id (storage outcome ok1), then saveSessionId(null) when
\* endAndArchiveSession awaited the call (storage outcome ok2).
StoredAfterSettle(req, out, ok1, ok2) ==
  LET afterAdopt ==
        IF ~out.thrown /\ HasSessionId(out.data)
        THEN (IF ~ok1 THEN stored
              ELSE IF Truthy(SessionIdOf(out.data)) THEN SessionIdOf(out.data) ELSE Null)
        ELSE stored
  IN IF req.end_session /\ ok2 THEN Null ELSE afterAdopt

\* The inline error text after a settled fetch: setError(message) in the catch block.
ErrorAfterSettle(out) == IF out.thrown THEN out.message ELSE error

\* The session id a processed response carried, as the backend sent it.
CarriedSessionId(resp) ==
  IF resp.kind = "http" /\ resp.ok /\ JSONParse(resp.body) # SyntaxError
       /\ HasKey(JSONParse(resp.body), "session_id")
  THEN JSString(Get(JSONParse(resp.body), "session_id"))
  ELSE Null

\* The fetch of a main-chat request settles with resp; handleSend resumes, and after
\* it endAndArchiveSession when it awaited this call.
MainSettle(req, resp, ok1, ok2) ==
  LET out == MainOutcome(resp)
  IN /\ req \in MainRequests
     /\ sessionId' = SessionAfterSettle(req, out)
     /\ stored' = StoredAfterSettle(req, out, ok1, ok2)
     /\ messages' = MessagesAfterSettle(req, out)
     /\ error' = ErrorAfterSettle(out)
     /\ isSending' = SendingAfterSettle(out)
     /\ net' = IF req.end_session THEN MarkPreClear(net \ {req}) ELSE net \ {req}
     /\ lastResp' = resp
     /\ obtained' = IF req.end_session THEN Null
                    ELSE IF CarriedSessionId(resp) # Null THEN CarriedSessionId(resp)
                    ELSE obtained
     /\ busyRejected' = FALSE
     /\ UNCHANGED <<nreq, mgrLastResp>>
     /\ UNCHANGED mgrVars
     /\ UNCHANGED <<popupVars, fetchVars, saveVars, pureVars>>

\* newSession()
newSession(ok) ==
  /\ sessionId' = SessionAfterSave(Null, ok)
  /\ stored' = StoredAfterSave(Null, ok)
  /\ messages' = <<WelcomeMessage>>
  /\ error' = Null
  /\ net' = MarkPreClear(net)
  /\ lastResp' = NoResp
  /\ obtained' = Null
  /\ UNCHANGED <<isSending, nreq, busyRejected>>

\* The New Session button
NewSession(ok) ==
  /\ newSession(ok)
  /\ UNCHANGED mgrLastResp
  /\ UNCHANGED mgrVars
  /\ UNCHANGED <<popupVars, fetchVars, saveVars, pureVars>>

\* endAndArchiveSession() up to its await: with no session it is newSession(); with a
\* send in flight handleSend returns at once and saveSessionId(null) runs right away;
\* otherwise the end_session turn is issued and MainSettle clears the session after it.
EndAndArchiveSession(ok) ==
  /\ IF ~Truthy(sessionId)
     THEN newSession(ok)
     ELSE IF SendRejected("End session")
     THEN /\ sessionId' = SessionAfterSave(Null, ok)
          /\ stored' = StoredAfterSave(Null, ok)
          /\ net' = MarkPreClear(net)
          /\ obtained' = Null
          /\ busyRejected' = TRUE
          /\ UNCHANGED <<messages, isSending, error, nreq, lastResp>>
     ELSE /\ handleSend("End session", TRUE)
          /\ UNCHANGED <<sessionId, stored, obtained>>
  /\ UNCHANGED mgrLastResp
  /\ UNCHANGED mgrVars
  /\ UNCHANGED <<popupVars, fetchVars, saveVars, pureVars>>

\* ---------------------------------------------------------- fetchDecisions

API_BASE == "http://localhost:8000"

tryUrls ==
  <<"/decisions.json", "decisions.json", "./decisions.json",
    API_BASE \o "/decisions.json", API_BASE \o "/decisions-from-disk">>

FetchErrorText ==
  "Could not fetch decisions.json from expected locations. Place the file in public folder or expose it via backend."

\* A fetchDecisions call under way: it awaits fetch(tryUrls[pos]).
Run(n, pos) == [fid |-> n, pos |-> pos, url |-> tryUrls[pos]]

\* Mutant of DecisionsAfterFetchStart: the table is kept while it is fetched again.
DecisionsAfterFetchStartKept(pending) == pending

\* setDecisions({}) at the start of fetchDecisions, whatever update is pending.
DecisionsAfterFetchStart(pending) == NoDecisions

\* fetchDecisions() up to its first await, called with the table update pending.
fetchDecisionsFrom(pending) ==
  /\ nfetch < MaxFetches
  /\ loading' = TRUE
  /\ fetchError' = Null
  /\ decisions' = DecisionsAfterFetchStart(pending)
  /\ fetches' = fetches \cup {Run(nfetch + 1, 1)}
  /\ nfetch' = nfetch + 1
  /\ lastSource' = NoResp

fetchDecisions == fetchDecisionsFrom(decisions)

\* for (const url of tryUrls): the candidate after the one at pos
NextCandidate(pos) == pos + 1

\* The calls under way after run has seen the outcome of its candidate: it returns on
\* a loaded mapping and after the last candidate, else it fetches the next candidate.
RunsAfterProbe(run, out) ==
  IF out.loaded \/ run.pos = Len(tryUrls)
  THEN fetches \ {run}
  ELSE (fetches \ {run}) \cup {Run(run.fid, NextCandidate(run.pos))}

\* setDecisions(normalized) on a loaded mapping
DecisionsAfterProbe(run, out) == IF out.loaded THEN out.normalized ELSE decisions

\* setLoading(false) on a loaded mapping and after the last candidate
LoadingAfterProbe(run, out) ==
  IF out.loaded \/ run.pos = Len(tryUrls) THEN FALSE ELSE loading

\* Mutant of FetchErrorAfterProbe: every skipped candidate sets the error.
FetchErrorAfterProbeOnEverySkip(run, out) == IF ~out.loaded THEN FetchErrorText ELSE fetchError

\* setFetchError(...) after the last candidate was skipped
FetchErrorAfterProbe(run, out) ==
  IF ~out.loaded /\ run.pos = Len(tryUrls) THEN FetchErrorText ELSE fetchError

\* The fetch of a candidate settles with resp; fetchDecisions resumes.
FetchSettle(run, resp) ==
  LET out == Probe(resp)
  IN /\ run \in fetches
     /\ fetches' = RunsAfterProbe(run, out)
     /\ decisions' = DecisionsAfterProbe(run, out)
     /\ loading' = LoadingAfterProbe(run, out)
     /\ fetchError' = FetchErrorAfterProbe(run, out)
     /\ lastSource' = resp
     /\ UNCHANGED <<open, authenticated, authError, nfetch, openManagerChatFor>>
     /\ UNCHANGED <<chatVars, saveVars, pureVars>>

\* ------------------------------------------------------------ manager chat

SysMessage(custId) == Msg("sys", "ai", "Manager chat opened for " \o custId \o ".")

LoadPrompt(custId) ==
  "Load full customer profile for " \o custId \o ". "
    \o "Please fetch bank_statement and credit_profile using the tool and return a concise JSON object containing at least: customer_id, bank_statement, credit_profile."

\* initialLoad's guard
AlreadyLoaded(msgs) ==
  \E i \in 1..Len(msgs) :
    Includes(msgs[i].text, "Bank statement:") \/ Includes(msgs[i].text, "Customer:")

\* Mutant of EffectDepsChanged: an effect without a dependency list runs after every render.
EffectRunsEveryRender(prevCustId, custId) == TRUE

\* The dependency list of the auto-load effect is [custId]: after the first render
\* the effect runs again only when custId differs from the previous render's.
EffectDepsChanged(prevCustId, custId) == prevCustId # custId

\* payload.session_id of sendManagerQuery: getStoredSessionId(), attached when truthy
ManagerPayloadSessionId(ok) == IF Truthy(GetItem(ok)) THEN GetItem(ok) ELSE Absent

\* payload.customer_id of sendManagerQuery
ManagerPayloadCustomerId(custId) == custId

\* sendManagerQuery(text) up to its await, run by the ManagerChat of custId whose
\* transcript is msgs.
sendManagerQuery(text, custId, msgs, ok) ==
  LET n == nreq + 1
      req == Request(n, "mgr", text, ManagerPayloadSessionId(ok),
                     ManagerPayloadCustomerId(custId), FALSE)
  IN IF Trim(text) = ""
     THEN /\ mgrMessages' = msgs
          /\ UNCHANGED <<mgrIsSending, net, nreq, mgrLastResp>>
     ELSE /\ nreq < MaxRequests
          /\ mgrMessages' = Append(msgs, Msg(UserMsgId(n), "user", text))
          /\ mgrIsSending' = TRUE
          /\ net' = net \cup {req}
          /\ nreq' = n
          /\ mgrLastResp' = NoResp

\* initialLoad(): the auto-load effect's body
initialLoad(custId, msgs, ok) ==
  IF AlreadyLoaded(msgs)
  THEN /\ mgrMessages' = msgs
       /\ UNCHANGED <<mgrIsSending, net, nreq, mgrLastResp>>
  ELSE sendManagerQuery(LoadPrompt(custId), custId, msgs, ok)

\* initialDecision.x ?? ''
OrEmpty(v) == IF v \in {Absent, Null} THEN "" ELSE v

\* The decision table is rendered: signed in, not loading, no fetch error, a row each.
TableShown == open /\ authenticated /\ ~loading /\ fetchError = Null

\* "Open chat" on a row of the decision table: ManagerChat mounts for custId with the
\* row as initialDecision, and its effect runs initialLoad on the first render.
OpenManagerChat(custId, ok) ==
  /\ openManagerChatFor = Null
  /\ TableShown
  /\ custId \in DOMAIN decisions
  /\ openManagerChatFor' = custId
  /\ initialLoad(custId, <<SysMessage(custId)>>, ok)
  /\ mgrDecision' = OrEmpty(decisions[custId].decision)
  /\ mgrReason' = OrEmpty(decisions[custId].reason)
  /\ mgrUpdatedAt' = decisions[custId].updated_at
  /\ saveStatus' = Null
  /\ UNCHANGED <<saves, nsave, lastSave>>
  /\ UNCHANGED mainVars
  /\ UNCHANGED mainHistory
  /\ UNCHANGED <<popupVars, fetchVars, pureVars>>

\* Mutant of SendDisabled: the Send button is never disabled.
SendNeverDisabled == FALSE

\* disabled={isSending} on the Send button of ManagerChatComposer
SendDisabled == mgrIsSending

\* ManagerChatComposer.handleSubmit: the Send button is disabled while isSending.
ManagerSubmit(value, ok) ==
  /\ openManagerChatFor # Null
  /\ ~SendDisabled
  /\ sendManagerQuery(Trim(value), openManagerChatFor, mgrMessages, ok)
  /\ UNCHANGED openManagerChatFor
  /\ UNCHANGED mainVars
  /\ UNCHANGED mainHistory
  /\ UNCHANGED <<popupVars, fetchVars, saveVars, pureVars>>

\* The manager transcript after the try/catch of sendManagerQuery has run.
ManagerMessagesAfterSettle(req, out) ==
  IF out.thrown
  THEN Append(mgrMessages,
              Msg(ReplyMsgId(req.rid), "ai", "Error contacting assistant: " \o out.message))
  ELSE Append(mgrMessages,
              Msg(ReplyMsgId(req.rid), "ai", formatReply(ReplyPayload(out.data))))

\* Mutant of StoredAfterManagerSettle: the slot is removed when the body carries no id.
StoredAfterManagerSettleOrRemove(out, ok) ==
  IF ~ok THEN stored
  ELSE IF ~out.thrown /\ HasSessionId(out.data) THEN SessionIdOf(out.data)
  ELSE Null

\* localStorage after sendManagerQuery has seen the decoded body: setItem inside
\* try/catch when the body carries a session id.
StoredAfterManagerSettle(out, ok) ==
  IF ~out.thrown /\ HasSessionId(out.data) /\ ok THEN SessionIdOf(out.data) ELSE stored

\* App's sessionId after a manager fetch has settled: ManagerChat has no access to
\* setSessionId.
SessionAfterManagerSettle(out) == sessionId

\* The fetch of a manager request settles with resp; sendManagerQuery resumes.  The
\* state setters of a ManagerChat that has been closed do nothing.
ManagerSettle(req, resp, ok) ==
  LET out == ManagerOutcome(resp)
  IN /\ req \in ManagerRequests
     /\ stored' = StoredAfterManagerSettle(out, ok)
     /\ sessionId' = SessionAfterManagerSettle(out)
     /\ IF req.unmounted
        THEN UNCHANGED <<mgrMessages, mgrIsSending>>
        ELSE /\ mgrMessages' = ManagerMessagesAfterSettle(req, out)
             /\ mgrIsSending' = FALSE
     /\ net' = net \ {req}
     /\ mgrLastResp' = resp
     /\ UNCHANGED <<messages, isSending, error, nreq, openManagerChatFor>>
     /\ UNCHANGED mainHistory
     /\ UNCHANGED <<popupVars, fetchVars, saveVars, pureVars>>

\* setTab(t): ManagerChat renders again and its effects are looked at.  The tab
\* itself only selects the pane that is shown and is not kept.
ManagerSetTab ==
  /\ openManagerChatFor # Null
  /\ UNCHANGED openManagerChatFor
  /\ IF EffectDepsChanged(openManagerChatFor, openManagerChatFor')
     THEN \E ok \in BOOLEAN : initialLoad(openManagerChatFor, mgrMessages, ok)
     ELSE UNCHANGED <<mgrMessages, mgrIsSending, net, nreq, mgrLastResp>>
  /\ UNCHANGED mainVars
  /\ UNCHANGED mainHistory
  /\ UNCHANGED <<popupVars, fetchVars, saveVars, pureVars>>

\* The requests and saves of a ManagerChat that unmounts: its state setters do
\* nothing from then on.
UnmountedRequests == {IF r.ctl = "mgr" THEN [r EXCEPT !.unmounted = TRUE] ELSE r : r \in net}
UnmountedSaves(svs) == {[sv EXCEPT !.unmounted = TRUE] : sv \in svs}

\* setOpenManagerChatFor(null): ManagerChat unmounts, its state is dropped.
ManagerChatUnmounts ==
  /\ openManagerChatFor' = Null
  /\ mgrMessages' = << >>
  /\ mgrIsSending' = FALSE
  /\ mgrLastResp' = NoResp
  /\ mgrDecision' = ""
  /\ mgrReason' = ""
  /\ mgrUpdatedAt' = Absent
  /\ saveStatus' = Null

\* onClose of the ManagerChat modal: setOpenManagerChatFor(null), then fetchDecisions().
ManagerClose ==
  /\ openManagerChatFor # Null
  /\ ManagerChatUnmounts
  /\ net' = UnmountedRequests
  /\ saves' = UnmountedSaves(saves)
  /\ fetchDecisions
  /\ UNCHANGED <<nreq, nsave, lastSave>>
  /\ UNCHANGED <<open, authenticated, authError>>
  /\ UNCHANGED mainVars
  /\ UNCHANGED mainHistory
  /\ UNCHANGED pureVars

\* ------------------------------------------------------------ saveDecision

SavingText == "saving"
SavedText == "saved (server)"
NoEndpointText ==
  "No server endpoint and File System Access API not available in this browser."

\* new Date().toISOString() at the n-th save
Now(n) == "2026-01-01T00:00:0" \o ToString(n) \o ".000Z"

\* What /update-decisions gives back.
SaveOk == Http(TRUE, 200, TRUE, "{\"ok\":true}")
SaveRefused == Http(FALSE, 500, FALSE, "disk full")
SaveResponses == {SaveOk, SaveRefused, RespNetErr}

\* <select> onChange: setDecision(value)
SetDecision(value) ==
  /\ openManagerChatFor # Null
  /\ mgrDecision' = value
  /\ UNCHANGED <<mgrReason, mgrUpdatedAt, saveStatus, saves, nsave, lastSave>>
  /\ UNCHANGED <<chatVars, openManagerChatFor, popupVars, fetchVars, pureVars>>

\* <textarea> onChange: setReason(value)
SetReason(value) ==
  /\ openManagerChatFor # Null
  /\ mgrReason' = value
  /\ UNCHANGED <<mgrDecision, mgrUpdatedAt, saveStatus, saves, nsave, lastSave>>
  /\ UNCHANGED <<chatVars, openManagerChatFor, popupVars, fetchVars, pureVars>>

\* saveDecision() up to its await: the payload is taken from the fields as rendered.
SaveDecision ==
  /\ openManagerChatFor # Null
  /\ nsave < MaxSaves
  /\ saveStatus' = SavingText
  /\ saves' = saves \cup {[sid |-> nsave + 1, customer_id |-> openManagerChatFor,
                            decision |-> mgrDecision, reason |-> mgrReason,
                            unmounted |-> FALSE]}
  /\ nsave' = nsave + 1
  /\ lastSave' = NoResp
  /\ UNCHANGED <<mgrDecision, mgrReason, mgrUpdatedAt>>
  /\ UNCHANGED <<chatVars, openManagerChatFor, popupVars, fetchVars, pureVars>>

\* Mutant of SaveSucceeded: the status of the response is not looked at.
SaveSucceededOnAnyResponse(resp) == resp.kind = "http"

\* saveDecision goes on to report success: the fetch resolved with res.ok.
SaveSucceeded(resp) == resp.kind = "http" /\ resp.ok

\* The texts a failing saveDecision passes to setSaveStatus, in order.
SaveStatusWrites(resp) ==
  IF resp.kind = "neterr" THEN <<NetworkErrorMessage, NoEndpointText>>
  ELSE <<"server error: " \o ToString(resp.status) \o " " \o resp.body, NoEndpointText>>

\* The status text after a failing saveDecision has run to its end: the last write.
SaveStatusAfterFailure(resp) == SaveStatusWrites(resp)[Len(SaveStatusWrites(resp))]

\* The record saveDecision hands to onSavedDecision.
SavedRecord(sv) == DecisionRecord(sv.decision, sv.reason, Now(sv.sid))

\* onSavedDecision(custId, rec): setDecisions((prev) => ({ ...prev, [custId]: rec }))
WithRecord(prev, custId, rec) ==
  [k \in DOMAIN prev \cup {custId} |-> IF k = custId THEN rec ELSE prev[k]]

\* The POST of saveDecision settles with resp.  On res.ok the ManagerChat's
\* onSavedDecision prop runs: the record is put into the table, the open ManagerChat is
\* closed and fetchDecisions() starts, which empties the table again.  Otherwise only
\* the status text changes, and only when the ManagerChat is still mounted.
SaveSettle(sv, resp) ==
  /\ sv \in saves
  /\ lastSave' = resp
  /\ IF SaveSucceeded(resp)
     THEN /\ ManagerChatUnmounts
          /\ net' = UnmountedRequests
          /\ saves' = UnmountedSaves(saves \ {sv})
          /\ fetchDecisionsFrom(WithRecord(decisions, sv.customer_id, SavedRecord(sv)))
     ELSE /\ saves' = saves \ {sv}
          /\ saveStatus' = IF sv.unmounted THEN saveStatus ELSE SaveStatusAfterFailure(resp)
          /\ UNCHANGED <<decisions, loading, fetchError, fetchVars>>
          /\ UNCHANGED <<net, openManagerChatFor, mgrMessages, mgrIsSending, mgrLastResp,
                         mgrDecision, mgrReason, mgrUpdatedAt>>
  /\ UNCHANGED <<nreq, nsave>>
  /\ UNCHANGED <<open, authenticated, authError>>
  /\ UNCHANGED mainVars
  /\ UNCHANGED mainHistory
  /\ UNCHANGED pureVars

\* ----------------------------------------------------------- FloatingPopup

\* String.prototype.toLowerCase on one character
LowerChar(c) ==
  CASE c = "A" -> "a" [] c = "B" -> "b" [] c = "C" -> "c" [] c = "D" -> "d"
    [] c = "E" -> "e" [] c = "F" -> "f" [] c = "G" -> "g" [] c = "H" -> "h"
    [] c = "I" -> "i" [] c = "J" -> "j" [] c = "K" -> "k" [] c = "L" -> "l"
    [] c = "M" -> "m" [] c = "N" -> "n" [] c = "O" -> "o" [] c = "P" -> "p"
    [] c = "Q" -> "q" [] c = "R" -> "r" [] c = "S" -> "s" [] c = "T" -> "t"
    [] c = "U" -> "u" [] c = "V" -> "v" [] c = "W" -> "w" [] c = "X" -> "x"
    [] c = "Y" -> "y" [] c = "Z" -> "z" [] OTHER -> c

\* String.prototype.toLowerCase
RECURSIVE ToLowerCase(_)
ToLowerCase(s) ==
  IF Len(s) = 0 THEN s
  ELSE LowerChar(SubSeq(s, 1, 1)) \o ToLowerCase(SubSeq(s, 2, Len(s)))

\* What is typed into the sign-in form.
Credentials ==
  {[email |-> " Manager@gmail.com", password |-> "manager"],
   [email |-> "manager@gmail.com", password |-> "guess"]}

CredentialsValid(c) ==
  ToLowerCase(Trim(c.email)) = "manager@gmail.com" /\ c.password = "manager"

\* The effect on [open, authenticated] runs when one of them changed in this step:
\* if (open && authenticated) fetchDecisions()
OpenAuthEffectFetches == (open' # open \/ authenticated' # authenticated) /\ open' /\ authenticated'

\* The floating button: setOpen(true)
OpenPopup ==
  /\ ~open
  /\ open' = TRUE
  /\ UNCHANGED <<authenticated, authError>>
  /\ IF OpenAuthEffectFetches
     THEN fetchDecisions
     ELSE UNCHANGED <<decisions, loading, fetchError, fetchVars>>
  /\ UNCHANGED <<chatVars, openManagerChatFor, saveVars, pureVars>>

\* handleLogin on the sign-in form
HandleLogin(c) ==
  /\ open
  /\ ~authenticated
  /\ IF CredentialsValid(c)
     THEN authError' = Null /\ authenticated' = TRUE
     ELSE authError' = "Invalid credentials" /\ UNCHANGED authenticated
  /\ UNCHANGED open
  /\ IF OpenAuthEffectFetches
     THEN fetchDecisions
     ELSE UNCHANGED <<decisions, loading, fetchError, fetchVars>>
  /\ UNCHANGED <<chatVars, openManagerChatFor, saveVars, pureVars>>

\* The Logout button, which the ManagerChat modal covers while it is shown.
Logout ==
  /\ open
  /\ authenticated
  /\ openManagerChatFor = Null
  /\ authenticated' = FALSE
  /\ decisions' = NoDecisions
  /\ UNCHANGED <<open, authError, loading, fetchError, fetchVars>>
  /\ UNCHANGED <<chatVars, openManagerChatFor, saveVars, pureVars>>

\* handleClose: the close button, Cancel, the backdrop, or the Escape key.
HandleClose ==
  /\ open
  /\ open' = FALSE
  /\ authenticated' = FALSE
  /\ authError' = Null
  /\ decisions' = NoDecisions
  /\ fetchError' = Null
  /\ loading' = FALSE
  /\ ManagerChatUnmounts
  /\ net' = UnmountedRequests
  /\ saves' = UnmountedSaves(saves)
  /\ UNCHANGED <<nreq, nsave, lastSave, fetchVars>>
  /\ UNCHANGED mainVars
  /\ UNCHANGED mainHistory
  /\ UNCHANGED pureVars

\* ------------------------------------------------- functions on their own

\* The object that has, of pairs, the keys in keys, in the order of pairs.
Pick(pairs, keys) == JObj(SelectSeq(pairs, LAMBDA pr : pr[1] \in keys))

PairKeys(pairs) == {pairs[i][1] : i \in 1..Len(pairs)}

\* Reply payloads: every selection of these keys.
ReplyPairs ==
  << <<"customer_id", JStr("C101")>>,
     <<"bank_statement", JObj(<< <<"transactions", JArr(<<JNum(1), JNum(2)>>)>> >>)>>,
     <<"decision", JStr("REVIEW")>>,
     <<"credit_profile", JObj(<< <<"loans", JArr(<< >>)>> >>)>>,
     <<"reason", JStr("high utilization")>>,
     <<"note", JStr("n")>> >>

FormatInputs == {[t |-> "reply", v |-> Pick(ReplyPairs, ks)] : ks \in SUBSET PairKeys(ReplyPairs)}

\* Entries of a decisions mapping: every selection of these keys.
EntryPairs ==
  << <<"decision", JStr("reject")>>, <<"status", JStr("approve")>>,
     <<"reason", JStr("late payments")>>, <<"explanation", JStr("ok")>>,
     <<"updated_at", JStr("t1")>>, <<"updatedAt", JStr("t2")>>, <<"ts", JStr("t3")>> >>

EntryInputs == {Pick(EntryPairs, ks) : ks \in SUBSET PairKeys(EntryPairs)}

\* Payloads of a decision source: the mapping of one customer, direct or wrapped.
NormalizeInputs ==
  {[t |-> "payload", v |-> JObj(<< <<"C1", e>> >>)] : e \in EntryInputs}
    \cup {[t |-> "payload", v |-> JObj(<< <<"decisions", JObj(<< <<"C1", e>> >>)>> >>)] :
             e \in EntryInputs}

PureInit ==
  /\ ChatConstructed
  /\ PopupConstructed
  /\ NothingUnderWay
  /\ arg \in FormatInputs \cup NormalizeInputs
  /\ result = NoArg

ApplyFormatReply ==
  /\ arg.t = "reply"
  /\ result = NoArg
  /\ result' = [t |-> "text", text |-> formatReply(arg.v)]
  /\ UNCHANGED <<arg, chatVars, openManagerChatFor, popupVars, fetchVars, saveVars>>

ApplyNormalize ==
  /\ arg.t = "payload"
  /\ result = NoArg
  /\ result' = [t |-> "decisions", normalized |-> Normalize(Mapping(arg.v))]
  /\ UNCHANGED <<arg, chatVars, openManagerChatFor, popupVars, fetchVars, saveVars>>

\* ---------------------------------------------------------- specification

MainSettles == \E req \in net, resp \in Responses, ok1 \in BOOLEAN, ok2 \in BOOLEAN :
                  MainSettle(req, resp, ok1, ok2)

FetchSettles == \E run \in fetches, resp \in SourceResponses : FetchSettle(run, resp)

\* The two chats, with the manager signed in.  The reload of the decision table that
\* ManagerClose starts is followed in PopupSpec.
Next ==
  \/ \E text \in Texts : HandleSend(text)
  \/ MainSettles
  \/ \E ok \in BOOLEAN : NewSession(ok)
  \/ \E ok \in BOOLEAN : EndAndArchiveSession(ok)
  \/ \E custId \in Customers, ok \in BOOLEAN : OpenManagerChat(custId, ok)
  \/ \E value \in ManagerTexts, ok \in BOOLEAN : ManagerSubmit(value, ok)
  \/ \E req \in net, resp \in Responses, ok \in BOOLEAN : ManagerSettle(req, resp, ok)
  \/ ManagerSetTab
  \/ ManagerClose

Spec == Init /\ [][Next]_vars

\* Every fetch of the main chat resolves or rejects in the end.
FairSpec == Spec /\ WF_vars(MainSettles)

\* What is typed into the decision form.
DecisionValues == {"REJECT"}
ReasonValues == {"manual"}

\* The manager's area: sign-in, the decision table, and the decision form of the
\* ManagerChat.
PopupNext ==
  \/ OpenPopup
  \/ \E c \in Credentials : HandleLogin(c)
  \/ Logout
  \/ HandleClose
  \/ FetchSettles
  \/ \E custId \in Customers, ok \in BOOLEAN : OpenManagerChat(custId, ok)
  \/ ManagerClose
  \/ \E value \in DecisionValues : SetDecision(value)
  \/ \E value \in ReasonValues : SetReason(value)
  \/ SaveDecision
  \/ \E sv \in saves, resp \in SaveResponses : SaveSettle(sv, resp)

PopupSpec == PopupInit /\ [][PopupNext]_vars

PureNext == ApplyFormatReply \/ ApplyNormalize

PureSpec == PureInit /\ [][PureNext]_vars

\* ------------------------------------------------------------- properties

Rids(reqs) == {r.rid : r \in reqs}

\* The requests this step issues, and the requests whose fetch settles in this step.
IssuedMain == {r \in net' : r.ctl = "main" /\ r.rid \notin Rids(net)}
IssuedManager == {r \in net' : r.ctl = "mgr" /\ r.rid \notin Rids(net)}
SettledMain == {r \in net : r.ctl = "main" /\ r.rid \notin Rids(net')}
SettledManager == {r \in net : r.ctl = "mgr" /\ r.rid \notin Rids(net')}

\* A transcript as the list of its (sender, text) pairs.
View(msgs) == [i \in 1..Len(msgs) |-> <<msgs[i].from, msgs[i].text>>]

\* The session id in the body of a response, whatever its status.
BodySessionId(resp) ==
  IF resp.kind = "http" /\ JSONParse(resp.body) # SyntaxError
       /\ HasKey(JSONParse(resp.body), "session_id")
  THEN JSString(Get(JSONParse(resp.body), "session_id"))
  ELSE Null

\* C1: once the main chat has processed a successful response carrying session_id S
\* (whatever its reply field), every handleSend request issued afterwards carries
\* session_id = S, until newSession / endAndArchiveSession clears the session or a
\* later response replaces it.
C1_SessionAttached ==
  [][\A r \in IssuedMain : Truthy(obtained) => r.session_id = obtained]_vars

\* A request in flight carries the id "S1" that came with an empty reply.
C1_Witness ==
  /\ obtained = "S1"
  /\ \E i \in 1..Len(messages) : messages[i].from = "ai" /\ messages[i].text = ""
  /\ \E r \in MainRequests : r.session_id = "S1" /\ ~r.preClear

\* C2: while a handleSend is unresolved, a further handleSend is a no-op: no second
\* request is issued, the transcript grows only when the outstanding fetch settles,
\* and the main chat never has more than one request outstanding.
C2_SingleFlight ==
  /\ [](Cardinality(MainRequests) <= 1)
  /\ [][isSending =>
          /\ IssuedMain = {}
          /\ (Len(messages') > Len(messages) => SettledMain # {})]_vars

\* handleSend was called, and turned away, while a request was outstanding.
C2_Witness == busyRejected /\ isSending /\ Cardinality(MainRequests) = 1

\* C3 (as claimed): once cleared, the in-memory session id stays empty until a
\* request issued after the clear receives a session_id.
C3_ClearedUntilLaterRequest ==
  [][(sessionId = Null /\ sessionId' # Null) => \E r \in SettledMain : ~r.preClear]_vars

\* C4 (as claimed): when a manager response carrying session_id completes, the next
\* request of the main chat carries that session_id.
C4_LastWriteWins ==
  [][(SettledManager # {} /\ CarriedSessionId(mgrLastResp') # Null)
       => MainPayloadSessionId' = CarriedSessionId(mgrLastResp')]_vars

\* C5: when a main-chat fetch returns a non-success status or is rejected, exactly
\* one message, the fixed failure text, is appended after everything the transcript
\* held (the user's message included), the error text is set, and no request is issued.
C5_FailureAppends ==
  [][\A r \in SettledMain :
       (lastResp'.kind = "neterr" \/ (lastResp'.kind = "http" /\ ~lastResp'.ok)) =>
         /\ Len(messages') = Len(messages) + 1
         /\ \A i \in 1..Len(messages) : messages'[i] = messages[i]
         /\ messages'[Len(messages')].from = "ai"
         /\ messages'[Len(messages')].text = FailureText
         /\ error' = (IF lastResp'.kind = "neterr" THEN NetworkErrorMessage
                      ELSE "Backend responded with status " \o ToString(lastResp'.status))
         /\ Rids(net') \subseteq Rids(net)]_vars

\* A status-500 turn has settled: user message, then the failure message, error set.
C5_Witness ==
  /\ lastResp = RespStatus
  /\ error = "Backend responded with status 500"
  /\ Len(messages) = 3
  /\ messages[2].from = "user"
  /\ messages[3].text = FailureText

\* C6: under FairSpec (every fetch settles in the end) a raised in-flight flag is
\* cleared in the end, with no request left outstanding, so a later send is accepted.
C6_FlagCleared == isSending ~> (~isSending /\ MainRequests = {})

\* A turn that was rejected by the network has settled and the flag is down.
C6_Witness == ~isSending /\ lastResp = RespNetErr /\ MainRequests = {}

\* The end-to-end case: the only turn so far, sent with no session, settles with the
\* decision reply.
EndToEndStep ==
  \E r \in SettledMain :
    /\ r.message = QuickPrompt
    /\ r.session_id = Absent
    /\ ~r.end_session
    /\ lastResp' = RespDecision
    /\ messages = <<WelcomeMessage, Msg(UserMsgId(r.rid), "user", QuickPrompt)>>

DecisionText == "Decision: REVIEW\nReason: high utilization"

\* C7 (as claimed): the transcript is [user: T, agent: "Decision: D\nReason: R"] and
\* the persisted session id is S.
C7_EndToEndAsClaimed ==
  [][EndToEndStep =>
       /\ View(messages') = << <<"user", QuickPrompt>>, <<"ai", DecisionText>> >>
       /\ stored' = "S9"]_vars

\* C7 (amended): the transcript is [agent: welcome, user: T, agent: "Decision: D\n
\* Reason: R"], the in-memory session id is S, and the persisted slot holds S unless
\* the storage write threw, which leaves the slot as it was.
C7_EndToEnd ==
  [][EndToEndStep =>
       /\ View(messages') = << <<"ai", WelcomeText>>, <<"user", QuickPrompt>>,
                               <<"ai", DecisionText>> >>
       /\ sessionId' = "S9"
       /\ stored' \in {"S9", stored}]_vars

C7_Witness ==
  /\ lastResp = RespDecision
  /\ View(messages) = << <<"ai", WelcomeText>>, <<"user", QuickPrompt>>,
                         <<"ai", DecisionText>> >>
  /\ sessionId = "S9"
  /\ stored = "S9"

C9_PayloadKeys ==
  [][(BodySessionId(mgrLastResp) # Null /\ stored = BodySessionId(mgrLastResp)) =>
       /\ \A r \in IssuedMain :
            /\ r.session_id = (IF Truthy(sessionId) THEN sessionId ELSE Absent)
            /\ r.customer_id = Absent
            /\ r.end_session => r.message = "End session"
       /\ \A r \in IssuedManager :
            /\ r.session_id = (IF Truthy(sessionId) THEN sessionId ELSE Absent)
            /\ r.customer_id = openManagerChatFor'
            /\ ~r.end_session]_vars

\* The profile-load turns in the transcript of the mounted ManagerChat.
AutoLoads ==
  {i \in 1..Len(mgrMessages) :
     mgrMessages[i].from = "user" /\ mgrMessages[i].text = LoadPrompt(openManagerChatFor)}

\* C10: a mounted ManagerChat has issued its profile-load turn at most once, whatever
\* renders and state changes it has gone through.
C10_AutoLoadOnce == openManagerChatFor # Null => Cardinality(AutoLoads) <= 1

\* The profile load was answered and a later turn was sent: still one load.
C10_Witness ==
  /\ openManagerChatFor # Null
  /\ Cardinality(AutoLoads) = 1
  /\ Len(mgrMessages) >= 4

\* newSession() ran: the transcript of a conversation is back to the welcome message.
TranscriptReset == Len(messages) > 1 /\ messages' = <<WelcomeMessage>>

\* C17: saveSessionId is fail-open.  The initial read gives the stored id or none;
\* after a response carrying a non-empty id the session reads as that id, after
\* newSession it reads as none, whether or not the storage write went through (the
\* slot then holds the new value or is left as it was), and the handler goes on:
\* the reply is appended and the in-flight flag cleared.
C17_FailOpen ==
  /\ sessionId \in {stored, Null}
  /\ [][\A r \in SettledMain :
          (~r.end_session /\ Truthy(CarriedSessionId(lastResp'))) =>
            /\ sessionId' = CarriedSessionId(lastResp')
            /\ stored' \in {CarriedSessionId(lastResp'), stored}
            /\ Len(messages') = Len(messages) + 1
            /\ ~isSending'
            /\ error' = error]_vars
  /\ [][TranscriptReset => (sessionId' = Null /\ stored' \in {Null, stored})]_vars

\* newSession ran while the storage write failed: the slot still holds the id, the
\* session reads as none.
C17_Witness ==
  /\ sessionId = Null
  /\ stored = "S9"
  /\ messages = <<WelcomeMessage>>
  /\ nreq = 1
  /\ net = {}
  /\ openManagerChatFor = Null
  /\ mgrLastResp = NoResp

\* C19 (as claimed): a non-2xx response to a manager-scoped turn is a failure: the
\* session_id of its body is not persisted and the ManagerChat appends a failure
\* message, not the formatted body.
C19_ManagerNon2xxFails ==
  [][\A r \in SettledManager :
       (mgrLastResp'.kind = "http" /\ ~mgrLastResp'.ok) =>
         /\ stored' = stored
         /\ ~r.unmounted =>
              Includes(mgrMessages'[Len(mgrMessages')].text, "Error contacting assistant")]_vars

\* C20 (as claimed): a successful response whose body is not JSON is shown as its raw
\* text, whatever its content type, and the error path is not taken.
C20_RawTextFallback ==
  [][\A r \in SettledMain :
       (lastResp'.kind = "http" /\ lastResp'.ok /\ JSONParse(lastResp'.body) = SyntaxError) =>
         /\ messages'[Len(messages')].text = formatReply(JStr(lastResp'.body))
         /\ error' = error]_vars

\* The session goes from an id to none while the transcript is kept: the clear is
\* the saveSessionId(null) of endAndArchiveSession, not newSession's.
ClearedByEnd ==
  /\ Truthy(sessionId)
  /\ ~Truthy(sessionId')
  /\ Len(messages) > 1
  /\ messages' # <<WelcomeMessage>>

\* C21 (as claimed): endAndArchiveSession with a session S issues one request carrying
\* session_id S and end_session: true, leaving the session in place, and the session
\* is cleared only in the step in which that request settles; without a session no
\* end_session request is issued.
C21_EndIssuesOneRequest ==
  [][/\ ClearedByEnd => \E r \in SettledMain : r.end_session /\ r.session_id = sessionId
     /\ \A r \in IssuedMain :
          r.end_session =>
            /\ Truthy(sessionId)
            /\ r.session_id = sessionId
            /\ sessionId' = sessionId
            /\ Cardinality(IssuedMain) = 1]_vars

\* C22 (as claimed): in the main transcript every agent message other than the
\* welcome message comes after the user message of its own turn; the reply to a
\* request issued before newSession is not appended to the fresh transcript.
C22_ReplyFollowsItsTurn ==
  \A i \in 1..Len(messages) :
    (messages[i].from = "ai" /\ messages[i].id # WelcomeMessage.id) =>
      \E j \in 1..(i - 1), n \in 1..nreq :
        /\ messages[j] = Msg(UserMsgId(n), "user", messages[j].text)
        /\ messages[i].id = ReplyMsgId(n)

\* The requests of the mounted ManagerChat whose fetch has not settled.
Outstanding == {r \in ManagerRequests : ~r.unmounted}

IssuedRuns == {r \in fetches' : r.fid \notin {q.fid : q \in fetches}}
ProbedRuns == {r \in fetches : r \notin fetches'}
SettledSaves == {sv \in saves : sv.sid \notin {q.sid : q \in saves'}}

\* The ManagerChat modal is closed by its close control, or a save has succeeded.
ClosedByControl == openManagerChatFor # Null /\ openManagerChatFor' = Null /\ open' /\ SettledSaves = {}
ClosedBySave == SettledSaves # {} /\ lastSave'.kind = "http" /\ lastSave'.ok

\* The table a decision source holds, read off its body.
SourceTable(resp) == Normalize(Mapping(JSONParse(resp.body)))

\* C11: closing a ManagerChat by its close control, and a successful save, each start
\* one new fetchDecisions, which empties the table (the record handed to
\* onSavedDecision included); when a fetchDecisions loads a source, the table is
\* exactly the normalized mapping of that source.
C11_CloseRefetches ==
  /\ [][(ClosedByControl \/ ClosedBySave) =>
          /\ Cardinality(IssuedRuns) = 1
          /\ \A r \in IssuedRuns : r.url = "/decisions.json"
          /\ loading'
          /\ decisions' = NoDecisions]_vars
  /\ [][\A r \in ProbedRuns :
          (lastSource' \in {SourceDirect, SourceWrapped, SourceNoDecisions}) =>
            /\ decisions' = SourceTable(lastSource')
            /\ \A q \in fetches' : q.fid # r.fid]_vars

\* A save succeeded, the table was fetched again and holds what the source holds.
C11_Witness ==
  /\ lastSave = SaveOk
  /\ lastSource = SourceDirect
  /\ fetches = {}
  /\ nfetch = 2
  /\ decisions = DirectDecisions
  /\ openManagerChatFor = Null

\* The candidate sources in their priority order.
CandidateOrder ==
  <<"/decisions.json", "decisions.json", "./decisions.json",
    "http://localhost:8000/decisions.json", "http://localhost:8000/decisions-from-disk">>

\* The calls of this run that are under way after the step.
StillProbing(r) == {q \in fetches' : q.fid = r.fid}

\* C12 (as claimed): the first candidate that returns a success status and a JSON
\* body ends the probing and gives the mapping.
C12_FirstJsonBodyAsClaimed ==
  [][\A r \in ProbedRuns :
       (lastSource'.kind = "http" /\ lastSource'.ok
          /\ JSONParse(lastSource'.body) # SyntaxError) =>
         /\ StillProbing(r) = {}
         /\ decisions' = SourceTable(lastSource')]_vars

\* A candidate whose payload fetchDecisions takes: success status and a body that is
\* JSON for an object (or array) whose mapping is not null.
Usable(resp) ==
  /\ resp.kind = "http"
  /\ resp.ok
  /\ JSONParse(resp.body) # SyntaxError
  /\ JSONParse(resp.body).t \in {"obj", "arr"}
  /\ Mapping(JSONParse(resp.body)).t # "null"

\* C12 (amended): a fetchDecisions call probes one candidate at a time, starting with
\* the first and going on in the fixed order; the first usable candidate ends the
\* probing and its normalized mapping becomes the table; any other candidate (it
\* throws, returns a non-success status, a body that is not JSON, or JSON that is not
\* an object) is skipped, the next one is requested, and nothing is changed or
\* reported unless it was the last.
C12_Probing ==
  /\ [](\A r \in fetches, q \in fetches : r.fid = q.fid => r = q)
  /\ [][\A r \in IssuedRuns : r.url = CandidateOrder[1]]_vars
  /\ [][\A r \in ProbedRuns :
          IF Usable(lastSource')
          THEN /\ StillProbing(r) = {}
               /\ decisions' = SourceTable(lastSource')
               /\ ~loading'
          ELSE IF r.pos < Len(CandidateOrder)
          THEN /\ \E q \in StillProbing(r) :
                    /\ StillProbing(r) = {q}
                    /\ q.pos = r.pos + 1
                    /\ q.url = CandidateOrder[r.pos + 1]
               /\ r.url = CandidateOrder[r.pos]
               /\ UNCHANGED <<decisions, loading, fetchError>>
          ELSE StillProbing(r) = {}]_vars

\* The second candidate returned the JSON number 5 and was skipped: the third is
\* being fetched and no error is shown.
C12_Witness ==
  /\ lastSource = SourceNumber
  /\ fetchError = Null
  /\ loading
  /\ \E r \in fetches : r.pos = 3 /\ r.url = "./decisions.json"

\* C13 (as claimed): a fetchDecisions whose candidates all fail ends with the fetch
\* error set and an empty table; one that loads a source leaves no fetch error.
C13_ExhaustedOrLoaded ==
  [][\A r \in ProbedRuns :
       /\ (StillProbing(r) = {} /\ ~Usable(lastSource')) =>
             (fetchError' # Null /\ decisions' = NoDecisions)
       /\ Usable(lastSource') => fetchError' = Null]_vars

\* The save that settles in this step failed: non-2xx, or the fetch was rejected.
SaveFailed == SettledSaves # {} /\ (lastSave'.kind = "neterr" \/ ~lastSave'.ok)

\* C14: when saveDecision gets a non-2xx response or its fetch is rejected, the
\* decision table is left as it is (onSavedDecision does not run: no record is put
\* in, the ManagerChat stays open, no fetchDecisions starts), updatedAt is not
\* changed, and a mounted ManagerChat shows a non-empty status text.
C14_FailedSaveKeepsRecord ==
  [][SaveFailed =>
       /\ decisions' = decisions
       /\ mgrUpdatedAt' = mgrUpdatedAt
       /\ openManagerChatFor' = openManagerChatFor
       /\ IssuedRuns = {}
       /\ \A sv \in SettledSaves : ~sv.unmounted => (saveStatus' # Null /\ Len(saveStatus') > 0)]_vars

\* A save of an edited decision was refused with status 500: the row is as fetched.
C14_Witness ==
  /\ lastSave = SaveRefused
  /\ openManagerChatFor = "C101"
  /\ mgrDecision = "REJECT"
  /\ decisions = DirectDecisions
  /\ mgrUpdatedAt = "t0"
  /\ saveStatus # Null

\* C15 (as claimed): the status text a failing saveDecision ends with is the failure
\* reason: "server error: <status> <body>", or the message of the thrown error.
C15_FailureReasonShown ==
  [][SaveFailed =>
       \A sv \in SettledSaves : ~sv.unmounted =>
         saveStatus' = (IF lastSave'.kind = "neterr" THEN NetworkErrorMessage
                        ELSE "server error: " \o ToString(lastSave'.status) \o " "
                               \o lastSave'.body)]_vars

\* C23 (as claimed): while the manager is not signed in (before login, after Logout,
\* after the manager's area is closed) the decisions mapping is empty, also when a
\* fetchDecisions started while signed in finishes afterwards.
C23_SignedOutNoDecisions == ~authenticated => decisions = NoDecisions

\* ------------------------------------- properties of the functions on their own

\* The entry for customer C1 in a payload, direct or wrapped under `decisions`.
EntryOf(payload) ==
  IF HasKey(payload, "decisions") THEN Get(Get(payload, "decisions"), "C1")
  ELSE Get(payload, "C1")

KeysOf(obj) == {obj.kv[i][1] : i \in 1..Len(obj.kv)}

\* C16: whether the mapping comes directly or under `decisions`, the result has one
\* record per entry: decision is the upper-cased `decision`, else `status`; reason is
\* `reason`, else `explanation`, else empty; updated_at is `updated_at`, else
\* `updatedAt`, else `ts`, else absent.
C16_Normalized ==
  result.t = "decisions" =>
    LET ks == KeysOf(EntryOf(arg.v))
    IN /\ DOMAIN result.normalized = {"C1"}
       /\ result.normalized["C1"].decision =
            (IF "decision" \in ks THEN "REJECT" ELSE IF "status" \in ks THEN "APPROVE" ELSE "")
       /\ result.normalized["C1"].reason =
            (IF "reason" \in ks THEN "late payments"
             ELSE IF "explanation" \in ks THEN "ok" ELSE "")
       /\ result.normalized["C1"].updated_at =
            (IF "updated_at" \in ks THEN "t1" ELSE IF "updatedAt" \in ks THEN "t2"
             ELSE IF "ts" \in ks THEN "t3" ELSE Absent)

\* {decisions: {C1: {status: "approve", explanation: "ok"}}} gives
\* {C1: {decision: "APPROVE", reason: "ok", updated_at: undefined}}.
C16_Witness ==
  /\ arg = [t |-> "payload", v |-> JSONParse(BodyWrapped)]
  /\ result.t = "decisions"
  /\ result.normalized =
       [k \in {"C1"} |-> [decision |-> "APPROVE", reason |-> "ok", updated_at |-> Absent]]

\* C18: an object with both `decision` and `reason`, whatever else it holds
\* (bank_statement and credit_profile included), is formatted as the decision.
C18_DecisionFirst ==
  (result.t = "text" /\ {"decision", "reason"} \subseteq KeysOf(arg.v)) =>
    result.text = "Decision: REVIEW\nReason: high utilization"

\* A payload with every key, profile keys included, was formatted as the decision.
C18_Witness ==
  /\ arg.t = "reply"
  /\ KeysOf(arg.v) = PairKeys(ReplyPairs)
  /\ result.t = "text"
  /\ result.text = "Decision: REVIEW\nReason: high utilization"

====
